---- MODULE Spec2Model ----
(***************************************************************************)
(* State-machine model of the OTP-gated authentication backend:            *)
(*   backend/services/otp_service.py   OTPService                          *)
(*   backend/services/rate_limiter.py  RateLimiter                         *)
(*   backend/core/security.py          token and digest helpers            *)
(*   backend/server.py                 signup and refresh handlers         *)
(*                                                                         *)
(* Every call is a process p.  A handler is cut at its awaits on a shared  *)
(* store: one action is the local code since the previous await followed   *)
(* by one store operation, so concurrent calls interleave exactly where    *)
(* the event loop (or a second worker) lets them.  Time is in seconds.     *)
(***************************************************************************)
EXTENDS Integers, Sequences, FiniteSets, TLC

\* ------------------------------------------------------------------ bounds
NProcs == 2          \* calls in flight at once
MaxOtps == 2         \* OTP documents ever inserted, sequential calls
MaxRacingOtps == 2   \* OTP documents ever inserted, concurrent calls
NCodes == 2          \* distinct values generate_otp may draw
MaxOtpLifetimes == 2    \* ticks of the clock by the lifetime of an OTP
MaxTokenLifetimes == 1  \* ticks of the clock by the lifetime of a refresh token
MaxSeconds == 1      \* second ticks of the clock
MaxWindows == 1      \* rate-limit-window ticks of the clock
MaxTokens == 3       \* refresh-token documents ever inserted
MaxAuthOtps == 3     \* OTP documents inserted before a login_password call is taken
MaxLogins == 1       \* refresh-token documents before a login_verify_otp call is taken
MaxLoginOtps == 4    \* OTP documents inserted before a login_password call of SpecLogin is taken

\* ------------------------------------------------------- program constants
OTP_EXPIRE_MINUTES == 5
OTP_MAX_ATTEMPTS == 3
ACCESS_TOKEN_EXPIRE_MINUTES == 15
REFRESH_TOKEN_EXPIRE_DAYS == 7
RATE_LIMIT_LOGIN_PER_HOUR == 10
SIGNUP_LIMIT == 5
WINDOW_MINUTES == 60

Procs == 1..NProcs
\* the slot that makes the calls of a specification of sequential calls
SeqProcs == {1}
Minute == 60
Day == 86400

VARIABLES
  users,           \* db.users: set of credential documents
  otps,            \* db.otps: set of OTP documents
  refresh_tokens,  \* db.refresh_tokens: set of refresh-token documents
  redis,           \* the counter store: key -> [exists, count, expire_at]
  redis_client,    \* RateLimiter.redis_client: "None" or "client"
  now,             \* datetime.now(timezone.utc), in seconds
  pc,              \* per call: the store operation it is about to issue
  req,             \* per call: the operation and its arguments
  loc,             \* per call: the handler's local variables
  res,             \* per call: what it returned
  hist             \* observation only: what has been issued and counted so far

vars == <<users, otps, refresh_tokens, redis, redis_client, now, pc, req, loc, res, hist>>

\* ------------------------------------------------------------ core/security
Codes == 0..(NCodes - 1)

\* generate_otp: a uniformly drawn 6-digit string; the model draws one of NCodes codes
generate_otp == Codes

\* hash_otp: SHA-256 hex digest, modelled as an injective constructor
hash_otp(otp) == <<"sha256", otp>>

verify_otp_hash(otp, otp_hash) == hash_otp(otp) = otp_hash

\* hash_password / verify_password: bcrypt; the salt is left out, and the model's
\* passwords are shorter than the 72 bytes bcrypt reads
hash_password(password) == <<"bcrypt", password>>

verify_password(plain_password, hashed_password) == hash_password(plain_password) = hashed_password

\* A JWT.  jwt.encode is deterministic: the same payload under the same key gives
\* the same string, and "exp" is written in whole seconds.
NoToken == [sub |-> "", role |-> "", exp |-> 0, type |-> "none"]
Garbage == [sub |-> "", role |-> "", exp |-> 0, type |-> "garbage"]

create_access_token(sub, role, t) ==
  [sub |-> sub, role |-> role, exp |-> t + ACCESS_TOKEN_EXPIRE_MINUTES * Minute, type |-> "access"]

create_refresh_token(sub, t) ==
  [sub |-> sub, role |-> "", exp |-> t + REFRESH_TOKEN_EXPIRE_DAYS * Day, type |-> "refresh"]

\* decode_token: "ok", or the ValueError it raises.  A token is expired from the
\* second of its "exp" on.
decode_token(token, t) ==
  IF token.type \notin {"access", "refresh"} THEN "Invalid token"
  ELSE IF token.exp <= t THEN "Token has expired"
  ELSE "ok"

\* hash_token: SHA-256 hex digest of the token string
hash_token(token) == <<"sha256", token>>

\* --------------------------------------------------------------- documents
\* A document of db.otps (otp_service.py lines 30-37).  created_at is written and
\* never read, so it is left out.  `wrong` is not a field of the program: it counts
\* the verify_otp calls that returned "Invalid OTP" for this document.  Nor is
\* `by`: it names the user whose signup or login_password had the document made.
NoOtp == [id |-> 0, target |-> "", purpose |-> "", otp_hash |-> <<"", 0>>,
          attempts |-> 0, expires_at |-> 0, wrong |-> 0, by |-> ""]

\* A document of db.users (server.py lines 143-157); an absent email or phone is "".
\* role and is_active never change and are left out of the comparisons below.
NoUser == [username |-> "", email |-> "", phone |-> "", password_hash |-> <<"", "">>,
           role |-> "", is_verified |-> FALSE]

\* A document of db.refresh_tokens (server.py lines 340-348, 421-427)
NoStored == [id |-> 0, user_id |-> "", refresh_token_hash |-> <<"", NoToken>>,
             expires_at |-> 0, revoked |-> FALSE]

\* the (target, purpose) pairs the direct calls of the OTP service use
OtpKeys == {<<"a@x.com", "login">>, <<"a@x.com", "signup">>}

\* the (target, purpose) pairs of every OTP document
AllOtpKeys == {"a@x.com", "+15550001", "carol"} \X {"signup", "login"}

\* "@" in target
HasAt(target) == target \in {"a@x.com"}
\* target.startswith("+")
StartsWithPlus(target) == target \in {"+15550001"}

\* Mongo ObjectIds are never reused: the n-th document inserted gets _id n
NewOtpId == hist.inserted + 1

NewTokenId == Cardinality(refresh_tokens) + 1

Matching(target, purpose) == {d \in otps : d.target = target /\ d.purpose = purpose}

\* ------------------------------------------------------------------- clock
\* the clock advances by one second
TickSecond ==
  /\ now % Minute < MaxSeconds
  /\ now' = now + 1
  /\ UNCHANGED <<users, otps, refresh_tokens, redis, redis_client, pc, req, loc, res, hist>>

\* the clock advances by the lifetime of an OTP
TickOtpLifetime ==
  /\ now \div (OTP_EXPIRE_MINUTES * Minute) < MaxOtpLifetimes
  /\ now' = now + OTP_EXPIRE_MINUTES * Minute
  /\ UNCHANGED <<users, otps, refresh_tokens, redis, redis_client, pc, req, loc, res, hist>>

\* the clock advances by the lifetime of a refresh token
TickTokenLifetime ==
  /\ now \div (REFRESH_TOKEN_EXPIRE_DAYS * Day) < MaxTokenLifetimes
  /\ now' = now + REFRESH_TOKEN_EXPIRE_DAYS * Day
  /\ UNCHANGED <<users, otps, refresh_tokens, redis, redis_client, pc, req, loc, res, hist>>

\* the clock advances by one rate-limit window
TickWindow ==
  /\ now \div (WINDOW_MINUTES * Minute) < MaxWindows
  /\ now' = now + WINDOW_MINUTES * Minute
  /\ UNCHANGED <<users, otps, refresh_tokens, redis, redis_client, pc, req, loc, res, hist>>

\* ------------------------------------------------------- request plumbing
NoUserData == [username |-> "", email |-> "", phone |-> "", password |-> "", role |-> ""]

Idle == [op |-> "idle", target |-> "", otp |-> 0, purpose |-> "", target_type |-> "",
         refresh_token |-> NoToken, credentials |-> NoToken,
         user_data |-> NoUserData, identifier |-> "", password |-> "", ip |-> "",
         key |-> <<"", "">>, limit |-> 0]

\* the locals of the handlers; the fields marked (obs) are not variables of the
\* program, they record what the call saw for the properties below
NoLoc == [target |-> "", purpose |-> "", target_type |-> "",
          otp |-> 0, otp_doc |-> NoOtp,
          stale |-> FALSE,             \* (obs) the code is of an earlier issue, not of the latest
          expired |-> FALSE,           \* (obs) verify_otp: the expiry check fired;
                                       \*       refresh: the token was past its expiry
          at |-> 0,                    \* (obs) the time of the checks of verify_otp
          stored_token |-> NoStored, user |-> NoUser,
          new_access_token |-> NoToken, new_refresh_token |-> NoToken,
          rotated |-> FALSE,           \* (obs) the presented token had been rotated before
          allowed |-> FALSE, remaining |-> 0, current |-> 0,
          rl |-> "",                   \* (obs) how check_rate_limit decided
          k |-> 0,                     \* (obs) calls counted in the window when it began
          channel |-> "",              \* the provider the code was handed to
          inserted_id |-> ""]

\* a result: (ok, msg) of a service call, or status and detail of a handler
NoRes == [ok |-> FALSE, status |-> 0, msg |-> "", remaining |-> 0,
          access_token |-> NoToken, refresh_token |-> NoToken]

Result(ok, msg, remaining) == [NoRes EXCEPT !.ok = ok, !.msg = msg, !.remaining = remaining]

HTTPException(status, detail) == [NoRes EXCEPT !.status = status, !.msg = detail]

\* a slot takes a call when it is idle or its previous call has returned
Free(p) == pc[p] \in {"idle", "done"}

\* ---------------------------------------------- server.py: callers of the OTP service
\* What follows `success, message = await otp_service.create_and_send_otp(...)`:
\* signup (lines 166-178) rolls back on failure and answers 201 otherwise;
\* login_password (lines 287-298) answers 500 on failure and 200 otherwise; a direct
\* call of the service returns the pair.
AfterCreate(p, success, message) ==
  IF req[p].op = "signup" /\ ~success
  THEN /\ pc' = [pc EXCEPT ![p] = "signup_rollback"]
       /\ res' = [res EXCEPT ![p] = Result(FALSE, message, 0)]
  ELSE IF req[p].op = "signup"
  THEN /\ pc' = [pc EXCEPT ![p] = "done"]
       /\ res' = [res EXCEPT ![p] = [NoRes EXCEPT !.ok = TRUE, !.status = 201,
                     !.msg = "User created successfully. Please verify your account with the OTP sent."]]
  ELSE IF req[p].op = "login_password" /\ ~success
  THEN /\ pc' = [pc EXCEPT ![p] = "done"]
       /\ res' = [res EXCEPT ![p] = HTTPException(500, message)]
  ELSE IF req[p].op = "login_password"
  THEN /\ pc' = [pc EXCEPT ![p] = "done"]
       /\ res' = [res EXCEPT ![p] = [NoRes EXCEPT !.ok = TRUE, !.status = 200,
                     !.msg = "Password verified. Please enter the OTP sent to your registered contact."]]
  ELSE /\ pc' = [pc EXCEPT ![p] = "done"]
       /\ res' = [res EXCEPT ![p] = Result(success, message, 0)]

\* What follows `success, message = await otp_service.verify_otp(...)`:
\* verify_signup (lines 193-203) and login_verify_otp (lines 312-320) answer 400 with
\* the message on failure and look the user up otherwise; a direct call returns
\* the pair.
AfterVerify(p, success, message, remaining) ==
  IF req[p].op = "verify_signup" /\ success
  THEN /\ pc' = [pc EXCEPT ![p] = "vs_find_user"]
       /\ res' = res
  ELSE IF req[p].op = "login_verify_otp" /\ success
  THEN /\ pc' = [pc EXCEPT ![p] = "lv_find_user"]
       /\ res' = res
  ELSE IF req[p].op \in {"verify_signup", "login_verify_otp"}
  THEN /\ pc' = [pc EXCEPT ![p] = "done"]
       /\ res' = [res EXCEPT ![p] = HTTPException(400, message)]
  ELSE /\ pc' = [pc EXCEPT ![p] = "done"]
       /\ res' = [res EXCEPT ![p] = Result(success, message, remaining)]

\* ------------------------------------------- services/otp_service.py: OTPService
\* a direct call of create_and_send_otp; the caller passes the target_type of the
\* field the target came from
Call_create_and_send_otp(p, bound) ==
  /\ Free(p)
  /\ hist.inserted + Cardinality({q \in Procs : pc[q] \in {"otp_delete_many", "otp_insert_one"}})
       < bound
  /\ \E k \in OtpKeys :
       /\ req' = [req EXCEPT ![p] = [Idle EXCEPT !.op = "create_and_send_otp", !.target = k[1],
                                                 !.purpose = k[2], !.target_type = "email"]]
       /\ loc' = [loc EXCEPT ![p] = [NoLoc EXCEPT !.target = k[1], !.purpose = k[2],
                                                  !.target_type = "email"]]
  /\ pc' = [pc EXCEPT ![p] = "otp_delete_many"]
  /\ res' = [res EXCEPT ![p] = NoRes]
  /\ UNCHANGED <<users, otps, refresh_tokens, redis, redis_client, now, hist>>

\* a delete_many that deletes nothing: the earlier code stays usable (C4)
DeleteManyNothing(target, purpose) == otps

\* delete_many({"target": target, "purpose": purpose})
DeleteMany(target, purpose) == otps \ Matching(target, purpose)

\* lines 22-40: draw the code, build the document, delete the documents of
\* (target, purpose)
create_delete_many(p) ==
  /\ pc[p] = "otp_delete_many"
  /\ \E otp \in generate_otp :
       loc' = [loc EXCEPT ![p].otp = otp,
                          ![p].otp_doc = [id |-> 0, target |-> loc[p].target,
                                          purpose |-> loc[p].purpose,
                                          otp_hash |-> hash_otp(otp), attempts |-> 0,
                                          expires_at |-> now + OTP_EXPIRE_MINUTES * Minute,
                                          wrong |-> 0, by |-> ""]]
  /\ otps' = DeleteMany(loc[p].target, loc[p].purpose)
  /\ pc' = [pc EXCEPT ![p] = "otp_insert_one"]
  /\ UNCHANGED <<users, refresh_tokens, redis, redis_client, now, req, res, hist>>

\* which provider lines 46-53 hand the code to; the providers of mock_providers.py
\* log the code and return True
Channel(target, target_type) ==
  IF target_type = "email" \/ HasAt(target) THEN "email"
  ELSE IF target_type = "phone" \/ StartsWithPlus(target) THEN "sms"
  ELSE "log"

\* (obs) the user for whom a handler has the OTP issued: the user signup inserted
\* (server.py line 166), the user login_password found (line 287)
Issuer(p) ==
  IF req[p].op = "signup" THEN loc[p].inserted_id
  ELSE IF req[p].op = "login_password" THEN loc[p].user.username
  ELSE ""

\* lines 42-55: insert the new document, send the code, return.
\* hist.last[key] (obs): the code of the latest issue for the key that returned,
\* hist.old[key] (obs): the codes of the issues before it.
create_insert_one(p) ==
  /\ pc[p] = "otp_insert_one"
  /\ LET doc == [loc[p].otp_doc EXCEPT !.id = NewOtpId, !.by = Issuer(p)]
         key == <<doc.target, doc.purpose>>
     IN /\ otps' = otps \cup {doc}
        /\ hist' = [hist EXCEPT !.inserted = @ + 1,
                                !.last[key] = loc[p].otp,
                                !.old[key] = @ \cup (IF hist.last[key] \in Codes
                                                     THEN {hist.last[key]} ELSE {})]
        /\ loc' = [loc EXCEPT ![p].otp_doc = doc,
                               ![p].channel = Channel(loc[p].target, loc[p].target_type)]
  /\ AfterCreate(p, TRUE, "OTP sent successfully")
  /\ UNCHANGED <<users, refresh_tokens, redis, redis_client, now, req>>

\* lines 57-59: a store operation of create_and_send_otp raises
create_raises(p) ==
  /\ pc[p] \in {"otp_delete_many", "otp_insert_one"}
  /\ AfterCreate(p, FALSE, "Failed to send OTP: {e}")
  /\ UNCHANGED <<users, otps, refresh_tokens, redis, redis_client, now, req, loc, hist>>

\* a direct call of verify_otp
Call_verify_otp(p) ==
  /\ Free(p)
  /\ \E k \in OtpKeys, otp \in Codes :
       /\ req' = [req EXCEPT ![p] = [Idle EXCEPT !.op = "verify_otp", !.target = k[1],
                                                 !.otp = otp, !.purpose = k[2]]]
       /\ loc' = [loc EXCEPT ![p] = [NoLoc EXCEPT !.target = k[1], !.otp = otp,
                                                  !.purpose = k[2],
                                                  !.stale = (otp \in hist.old[k] /\ otp # hist.last[k])]]
  /\ pc' = [pc EXCEPT ![p] = "otp_find_one"]
  /\ res' = [res EXCEPT ![p] = NoRes]
  /\ UNCHANGED <<users, otps, refresh_tokens, redis, redis_client, now, hist>>

\* lines 64-71: load the document of (target, purpose); of several matching
\* documents find_one returns any one
verify_find_one(p) ==
  /\ pc[p] = "otp_find_one"
  /\ LET found == Matching(loc[p].target, loc[p].purpose)
     IN IF found = {}
        THEN /\ loc' = [loc EXCEPT ![p].otp_doc = NoOtp]
             /\ AfterVerify(p, FALSE, "No OTP found for this target", 0)
        ELSE /\ \E d \in found : loc' = [loc EXCEPT ![p].otp_doc = d]
             /\ pc' = [pc EXCEPT ![p] = "otp_verify_write"]
             /\ res' = res
  /\ UNCHANGED <<users, otps, refresh_tokens, redis, redis_client, now, req, hist>>

\* delete_one({"_id": id})
DeleteOtp(id) == {d \in otps : d.id # id}

\* an update_one that leaves `attempts` as it is: wrong codes are not counted (C5)
IncAttemptsNothing(id) ==
  {IF d.id = id THEN [d EXCEPT !.wrong = @ + 1] ELSE d : d \in otps}

\* update_one({"_id": id}, {"$inc": {"attempts": 1}})
IncAttempts(id) ==
  {IF d.id = id THEN [d EXCEPT !.attempts = @ + 1, !.wrong = @ + 1] ELSE d : d \in otps}

\* an expiry test that treats the instant of expires_at as expired (C19)
IsExpiredFrom(t, expires_at) == t >= expires_at

\* line 75: `if datetime.now(timezone.utc) > expires_at`
IsExpired(t, expires_at) == t > expires_at

\* an attempts test that lets one more code through (C14)
IsExhaustedAbove(attempts) == attempts > OTP_MAX_ATTEMPTS

\* line 80: `if otp_doc["attempts"] >= settings.OTP_MAX_ATTEMPTS`
IsExhausted(attempts) == attempts >= OTP_MAX_ATTEMPTS

\* lines 73-96: expiry, attempts, digest, then the one write of the call
verify_write(p) ==
  /\ pc[p] = "otp_verify_write"
  /\ LET otp_doc == loc[p].otp_doc
     IN IF IsExpired(now, otp_doc.expires_at)
        THEN /\ otps' = DeleteOtp(otp_doc.id)
             /\ loc' = [loc EXCEPT ![p].expired = TRUE, ![p].at = now]
             /\ AfterVerify(p, FALSE, "OTP has expired", 0)
        ELSE IF IsExhausted(otp_doc.attempts)
        THEN /\ otps' = DeleteOtp(otp_doc.id)
             /\ loc' = [loc EXCEPT ![p].at = now]
             /\ AfterVerify(p, FALSE, "Maximum OTP attempts exceeded", 0)
        ELSE IF verify_otp_hash(loc[p].otp, otp_doc.otp_hash)
        THEN /\ otps' = DeleteOtp(otp_doc.id)
             /\ loc' = [loc EXCEPT ![p].at = now]
             /\ AfterVerify(p, TRUE, "OTP verified successfully", 0)
        ELSE /\ otps' = IncAttempts(otp_doc.id)
             /\ loc' = [loc EXCEPT ![p].at = now]
             /\ AfterVerify(p, FALSE, "Invalid OTP. {remaining} attempts remaining",
                            OTP_MAX_ATTEMPTS - (otp_doc.attempts + 1))
  /\ UNCHANGED <<users, refresh_tokens, redis, redis_client, now, req, hist>>

\* --------------------------------------- services/rate_limiter.py: RateLimiter
IPs == {"10.0.0.1", "10.0.0.2"}
AllRateKeys == {"signup", "login"} \X IPs
\* the keys the direct calls of check_rate_limit use
RateKeys == {<<"signup", "10.0.0.1">>, <<"login", "10.0.0.1">>}

\* the limit the handlers pass with a key (server.py lines 110-114 and 249-253)
Limit(key) == IF key[1] = "signup" THEN SIGNUP_LIMIT ELSE RATE_LIMIT_LOGIN_PER_HOUR

\* connect (lines 14-26): the client, or None when the connection or the ping fails
connect == {"client", "None"}

NoKey == [exists |-> FALSE, count |-> 0, expire_at |-> -1]

\* a key is there until its time-to-live has run out; expire_at = -1: no time-to-live
Live(key) == redis[key].exists /\ (redis[key].expire_at = -1 \/ now < redis[key].expire_at)

\* What follows `allowed, remaining = await rate_limiter.check_rate_limit(...)`:
\* signup (server.py lines 115-119) and login_password (lines 255-259) answer 429 or
\* go on; a direct call returns the pair.
AfterRate(p, allowed, remaining) ==
  IF req[p].op = "signup" /\ allowed
  THEN /\ pc' = [pc EXCEPT ![p] = "signup_find_username"]
       /\ res' = res
  ELSE IF req[p].op = "signup"
  THEN /\ pc' = [pc EXCEPT ![p] = "done"]
       /\ res' = [res EXCEPT ![p] =
                    HTTPException(429, "Too many signup attempts. Please try again later.")]
  ELSE IF req[p].op = "login_password" /\ allowed
  THEN /\ pc' = [pc EXCEPT ![p] = "lp_find_user"]
       /\ res' = res
  ELSE IF req[p].op = "login_password"
  THEN /\ pc' = [pc EXCEPT ![p] = "done"]
       /\ res' = [res EXCEPT ![p] =
                    HTTPException(429, "Too many login attempts. Please try again later.")]
  ELSE /\ pc' = [pc EXCEPT ![p] = "done"]
       /\ res' = [res EXCEPT ![p] = Result(allowed, "", remaining)]

\* hist.calls[key] (obs): the check_rate_limit calls that have returned since the
\* counter of the key was created, counted up to one more than the limit
Counted(key, k, limit) == [hist EXCEPT !.calls[key] = IF k <= limit THEN k + 1 ELSE k]

\* hist.allowed[key] (obs): the calls the counter of the key has let through
\* since the window of the key began, counted up to one more than the limit
Granted(h, key, limit) ==
  [h EXCEPT !.allowed[key] = IF ~Live(key) THEN 1 ELSE IF @ <= limit THEN @ + 1 ELSE @]

\* a limiter that denies when the store cannot be asked (C9)
FailClosed(limit) == [allowed |-> FALSE, remaining |-> 0]

\* lines 41 and 63: `return True, limit`
FailOpen(limit) == [allowed |-> TRUE, remaining |-> limit]

\* a comparison that lets one more call through (C8)
OverLimitStrict(current_count, limit) == current_count > limit

\* line 53: `if current_count >= limit`
OverLimit(current_count, limit) == current_count >= limit

\* the remaining attempts counted before the increment
RemainingBefore(limit, current_count) == limit - current_count

\* line 58: `return True, limit - current_count - 1`
RemainingAfter(limit, current_count) == limit - current_count - 1

\* the key the concurrent calls share
RacedKeys == {<<"signup", "10.0.0.1">>}

\* a direct call of check_rate_limit on a key out of `keys`
CheckCall(p, keys) ==
  /\ Free(p)
  /\ \E key \in keys :
       req' = [req EXCEPT ![p] = [Idle EXCEPT !.op = "check_rate_limit", !.key = key,
                                              !.limit = Limit(key)]]
  /\ loc' = [loc EXCEPT ![p] = NoLoc]
  /\ pc' = [pc EXCEPT ![p] = "rl_get"]
  /\ res' = [res EXCEPT ![p] = NoRes]
  /\ UNCHANGED <<users, otps, refresh_tokens, redis, redis_client, now, hist>>

Call_check_rate_limit(p) == CheckCall(p, RateKeys)

\* lines 38-54: no client: allow; else get(key) and decide on the count read
rl_get(p) ==
  /\ pc[p] = "rl_get"
  /\ LET key == req[p].key
         limit == req[p].limit
         k == IF Live(key) THEN hist.calls[key] ELSE 0
     IN IF redis_client = "None"
        THEN /\ loc' = [loc EXCEPT ![p].allowed = FailOpen(limit).allowed,
                                   ![p].remaining = FailOpen(limit).remaining,
                                   ![p].rl = "no client", ![p].k = k]
             /\ hist' = hist
             /\ AfterRate(p, FailOpen(limit).allowed, FailOpen(limit).remaining)
        ELSE IF ~Live(key)
        THEN /\ loc' = [loc EXCEPT ![p].rl = "first", ![p].k = k]
             /\ hist' = hist
             /\ pc' = [pc EXCEPT ![p] = "rl_setex"]
             /\ res' = res
        ELSE IF OverLimit(redis[key].count, limit)
        THEN /\ loc' = [loc EXCEPT ![p].allowed = FALSE, ![p].remaining = 0,
                                   ![p].current = redis[key].count,
                                   ![p].rl = "denied", ![p].k = k]
             /\ hist' = Counted(key, k, limit)
             /\ AfterRate(p, FALSE, 0)
        ELSE /\ loc' = [loc EXCEPT ![p].current = redis[key].count,
                                   ![p].rl = "counted", ![p].k = k]
             /\ hist' = hist
             /\ pc' = [pc EXCEPT ![p] = "rl_incr"]
             /\ res' = res
  /\ UNCHANGED <<users, otps, refresh_tokens, redis, redis_client, now, req>>

\* lines 46-49: setex(key, window_minutes * 60, 1)
rl_setex(p) ==
  /\ pc[p] = "rl_setex"
  /\ redis' = [redis EXCEPT ![req[p].key] =
                 [exists |-> TRUE, count |-> 1, expire_at |-> now + WINDOW_MINUTES * Minute]]
  /\ loc' = [loc EXCEPT ![p].allowed = TRUE, ![p].remaining = req[p].limit - 1]
  /\ hist' = Granted(Counted(req[p].key, 0, req[p].limit), req[p].key, req[p].limit)
  /\ AfterRate(p, TRUE, req[p].limit - 1)
  /\ UNCHANGED <<users, otps, refresh_tokens, redis_client, now, req>>

\* lines 56-58: incr(key); on a key that is gone by now, incr creates it at 1
\* with no time-to-live
rl_incr(p) ==
  /\ pc[p] = "rl_incr"
  /\ redis' = [redis EXCEPT ![req[p].key] =
                 IF Live(req[p].key) THEN [@ EXCEPT !.count = @ + 1]
                 ELSE [exists |-> TRUE, count |-> 1, expire_at |-> -1]]
  /\ loc' = [loc EXCEPT ![p].allowed = TRUE,
                        ![p].remaining = RemainingAfter(req[p].limit, loc[p].current),
                        ![p].rl = IF Live(req[p].key) THEN "counted" ELSE "lapsed"]
  /\ hist' = Granted(Counted(req[p].key, IF Live(req[p].key) THEN loc[p].k ELSE 0, req[p].limit),
                     req[p].key, req[p].limit)
  /\ AfterRate(p, TRUE, RemainingAfter(req[p].limit, loc[p].current))
  /\ UNCHANGED <<users, otps, refresh_tokens, redis_client, now, req>>

\* lines 60-63: get, setex or incr raises: allow the request
rl_raises(p) ==
  /\ pc[p] \in {"rl_get", "rl_setex", "rl_incr"}
  /\ redis_client # "None"
  /\ loc' = [loc EXCEPT ![p].allowed = FailOpen(req[p].limit).allowed,
                        ![p].remaining = FailOpen(req[p].limit).remaining,
                        ![p].rl = "error"]
  /\ AfterRate(p, FailOpen(req[p].limit).allowed, FailOpen(req[p].limit).remaining)
  /\ UNCHANGED <<users, otps, refresh_tokens, redis, redis_client, now, req, hist>>

\* ------------------------------------------------------- server.py: signup
\* the requests of the model (UserCreate); an absent email or phone is ""
UserCreates ==
  {[username |-> "alice", email |-> "a@x.com", phone |-> "", password |-> "secret1", role |-> "customer"],
   [username |-> "bob", email |-> "", phone |-> "+15550001", password |-> "secret2", role |-> "customer"],
   [username |-> "carol", email |-> "", phone |-> "", password |-> "secret3", role |-> "customer"],
   [username |-> "alice2", email |-> "a@x.com", phone |-> "+15550001", password |-> "secret1", role |-> "customer"]}

\* a username is any string of 3 to 50 characters (models/user.py line 15): it may
\* be the text of another user's email
SharedCreates ==
  {[username |-> "alice", email |-> "a@x.com", phone |-> "+15550001", password |-> "secret1", role |-> "customer"],
   [username |-> "a@x.com", email |-> "", phone |-> "", password |-> "secret3", role |-> "customer"]}

\* a user with a username and nothing else, and one with an email and a phone:
\* "carol" is no email address and no phone number (models/user.py lines 7-8)
LimboCreates == {user_data \in UserCreates : user_data.username \in {"carol", "alice2"}}

\* lines 108-114: a signup request with a body out of `creates`
SignupCall(p, creates) ==
  /\ Free(p)
  /\ \E user_data \in creates, ip \in IPs :
       req' = [req EXCEPT ![p] = [Idle EXCEPT !.op = "signup", !.user_data = user_data,
                                              !.ip = ip, !.key = <<"signup", ip>>,
                                              !.limit = SIGNUP_LIMIT]]
  /\ loc' = [loc EXCEPT ![p] = NoLoc]
  /\ pc' = [pc EXCEPT ![p] = "rl_get"]
  /\ res' = [res EXCEPT ![p] = NoRes]
  /\ UNCHANGED <<users, otps, refresh_tokens, redis, redis_client, now, hist>>

Call_signup(p) == SignupCall(p, UserCreates)

\* the store operation after the username check (lines 126-139)
AfterUsername(user_data) ==
  IF user_data.email # "" THEN "signup_find_email"
  ELSE IF user_data.phone # "" THEN "signup_find_phone"
  ELSE "signup_insert_one"

\* lines 121-124
signup_find_username(p) ==
  /\ pc[p] = "signup_find_username"
  /\ IF \E u \in users : u.username = req[p].user_data.username
     THEN /\ pc' = [pc EXCEPT ![p] = "done"]
          /\ res' = [res EXCEPT ![p] = HTTPException(400, "Username already exists")]
     ELSE /\ pc' = [pc EXCEPT ![p] = AfterUsername(req[p].user_data)]
          /\ res' = res
  /\ UNCHANGED <<users, otps, refresh_tokens, redis, redis_client, now, req, loc, hist>>

\* lines 126-130
signup_find_email(p) ==
  /\ pc[p] = "signup_find_email"
  /\ IF \E u \in users : u.email = req[p].user_data.email
     THEN /\ pc' = [pc EXCEPT ![p] = "done"]
          /\ res' = [res EXCEPT ![p] = HTTPException(400, "Email already registered")]
     ELSE /\ pc' = [pc EXCEPT ![p] = IF req[p].user_data.phone # "" THEN "signup_find_phone"
                                     ELSE "signup_insert_one"]
          /\ res' = res
  /\ UNCHANGED <<users, otps, refresh_tokens, redis, redis_client, now, req, loc, hist>>

\* lines 132-136
signup_find_phone(p) ==
  /\ pc[p] = "signup_find_phone"
  /\ IF \E u \in users : u.phone = req[p].user_data.phone
     THEN /\ pc' = [pc EXCEPT ![p] = "done"]
          /\ res' = [res EXCEPT ![p] = HTTPException(400, "Phone already registered")]
     ELSE /\ pc' = [pc EXCEPT ![p] = "signup_insert_one"]
          /\ res' = res
  /\ UNCHANGED <<users, otps, refresh_tokens, redis, redis_client, now, req, loc, hist>>

\* the unique indexes of db.users (lines 606-608): username, and email and phone
\* where present
Duplicate(doc) ==
  \E u \in users : \/ u.username = doc.username
                   \/ (doc.email # "" /\ u.email = doc.email)
                   \/ (doc.phone # "" /\ u.phone = doc.phone)

\* lines 138-166: insert the unverified user, pick the OTP target, call the OTP
\* service.  The unique index on username makes it the document's identity.
signup_insert_one(p) ==
  /\ pc[p] = "signup_insert_one"
  /\ LET user_data == req[p].user_data
         user_doc == [username |-> user_data.username, email |-> user_data.email,
                      phone |-> user_data.phone,
                      password_hash |-> hash_password(user_data.password),
                      role |-> user_data.role, is_verified |-> FALSE]
         target == IF user_data.email # "" THEN user_data.email
                   ELSE IF user_data.phone # "" THEN user_data.phone ELSE user_data.username
         target_type == IF user_data.email # "" THEN "email"
                        ELSE IF user_data.phone # "" THEN "phone" ELSE "username"
     IN IF Duplicate(user_doc)
        THEN /\ users' = users
             /\ loc' = loc
             /\ pc' = [pc EXCEPT ![p] = "done"]
             /\ res' = [res EXCEPT ![p] = HTTPException(500, "Registration failed")]
        ELSE /\ users' = users \cup {user_doc}
             /\ loc' = [loc EXCEPT ![p].inserted_id = user_doc.username,
                                   ![p].target = target, ![p].purpose = "signup",
                                   ![p].target_type = target_type]
             /\ pc' = [pc EXCEPT ![p] = "otp_delete_many"]
             /\ res' = res
  /\ UNCHANGED <<otps, refresh_tokens, redis, redis_client, now, req, hist>>

\* lines 168-171: delete the user this call inserted, answer 500 with the message
signup_rollback(p) ==
  /\ pc[p] = "signup_rollback"
  /\ users' = {u \in users : u.username # loc[p].inserted_id}
  /\ pc' = [pc EXCEPT ![p] = "done"]
  /\ res' = [res EXCEPT ![p] = HTTPException(500, res[p].msg)]
  /\ UNCHANGED <<otps, refresh_tokens, redis, redis_client, now, req, loc, hist>>

\* lines 180-184: a store operation of the handler itself raises
signup_raises(p) ==
  /\ pc[p] \in {"signup_find_username", "signup_find_email", "signup_find_phone",
                "signup_insert_one", "signup_rollback"}
  /\ pc' = [pc EXCEPT ![p] = "done"]
  /\ res' = [res EXCEPT ![p] = HTTPException(500, "Registration failed")]
  /\ UNCHANGED <<users, otps, refresh_tokens, redis, redis_client, now, req, loc, hist>>

\* ----------------------------------------------- server.py: refresh_tokens
\* the state a login leaves behind (login_verify_otp, lines 333-348): a verified
\* user and the record of the refresh token issued to them at time 0
Alice == [username |-> "alice", email |-> "a@x.com", phone |-> "",
          password_hash |-> hash_password("secret1"), role |-> "customer",
          is_verified |-> TRUE]

LoginRecord == [id |-> 1, user_id |-> "alice",
                refresh_token_hash |-> hash_token(create_refresh_token("alice", 0)),
                expires_at |-> REFRESH_TOKEN_EXPIRE_DAYS * Day, revoked |-> FALSE]

\* what a caller can present: a refresh token that was issued (each has its
\* record), the access token of the login, or a string that is no token
Presentable ==
  {r.refresh_token_hash[2] : r \in refresh_tokens}
    \cup {create_access_token("alice", "customer", 0), Garbage}

Call_refresh_tokens(p) ==
  /\ Free(p)
  /\ Cardinality(refresh_tokens)
       + Cardinality({q \in Procs : pc[q] \in {"refresh_find_token", "refresh_find_user",
                                                "refresh_revoke", "refresh_insert"}})
       < MaxTokens
  /\ \E token \in Presentable :
       /\ req' = [req EXCEPT ![p] = [Idle EXCEPT !.op = "refresh", !.refresh_token = token]]
       /\ loc' = [loc EXCEPT ![p] = [NoLoc EXCEPT !.rotated = (token \in hist.rotated),
                                                  !.expired = (token.type = "refresh" /\ token.exp < now)]]
  /\ pc' = [pc EXCEPT ![p] = "refresh_find_token"]
  /\ res' = [res EXCEPT ![p] = NoRes]
  /\ UNCHANGED <<users, otps, refresh_tokens, redis, redis_client, now, hist>>

\* lines 378-395: decode, check the type, find the unrevoked record.  The
\* ValueError of decode_token is caught by `except Exception` (lines 448-450).
refresh_find_token(p) ==
  /\ pc[p] = "refresh_find_token"
  /\ LET token == req[p].refresh_token
         found == {r \in refresh_tokens : /\ r.user_id = token.sub
                                          /\ r.refresh_token_hash = hash_token(token)
                                          /\ ~r.revoked}
     IN IF decode_token(token, now) # "ok"
        THEN /\ pc' = [pc EXCEPT ![p] = "done"]
             /\ res' = [res EXCEPT ![p] = HTTPException(401, "Could not refresh token")]
             /\ loc' = loc
        ELSE IF token.type # "refresh"
        THEN /\ pc' = [pc EXCEPT ![p] = "done"]
             /\ res' = [res EXCEPT ![p] = HTTPException(401, "Invalid token type")]
             /\ loc' = loc
        ELSE IF found = {}
        THEN /\ pc' = [pc EXCEPT ![p] = "done"]
             /\ res' = [res EXCEPT ![p] = HTTPException(401, "Invalid or revoked refresh token")]
             /\ loc' = loc
        ELSE /\ \E r \in found : loc' = [loc EXCEPT ![p].stored_token = r]
             /\ pc' = [pc EXCEPT ![p] = "refresh_find_user"]
             /\ res' = res
  /\ UNCHANGED <<users, otps, refresh_tokens, redis, redis_client, now, req, hist>>

\* lines 397-407: the expiry check on the record, then find the user
refresh_find_user(p) ==
  /\ pc[p] = "refresh_find_user"
  /\ LET found == {u \in users : u.username = req[p].refresh_token.sub}
     IN IF now > loc[p].stored_token.expires_at
        THEN /\ pc' = [pc EXCEPT ![p] = "done"]
             /\ res' = [res EXCEPT ![p] = HTTPException(401, "Refresh token expired")]
             /\ loc' = loc
        ELSE IF found = {}
        THEN /\ pc' = [pc EXCEPT ![p] = "done"]
             /\ res' = [res EXCEPT ![p] = HTTPException(404, "User not found")]
             /\ loc' = loc
        ELSE /\ \E u \in found : loc' = [loc EXCEPT ![p].user = u]
             /\ pc' = [pc EXCEPT ![p] = "refresh_revoke"]
             /\ res' = res
  /\ UNCHANGED <<users, otps, refresh_tokens, redis, redis_client, now, req, hist>>

\* an update_one that removes the record instead of marking it (C17)
RevokeOneRemoves(id) == {r \in refresh_tokens : r.id # id}

\* lines 413-416: update_one({"_id": id}, {"$set": {"revoked": True}})
RevokeOne(id) ==
  {IF r.id = id THEN [r EXCEPT !.revoked = TRUE] ELSE r : r \in refresh_tokens}

\* lines 409-417: create the new pair, then update_one({"_id": ...}, revoked: True)
refresh_revoke(p) ==
  /\ pc[p] = "refresh_revoke"
  /\ loc' = [loc EXCEPT
               ![p].new_access_token = create_access_token(loc[p].user.username, loc[p].user.role, now),
               ![p].new_refresh_token = create_refresh_token(loc[p].user.username, now)]
  /\ refresh_tokens' = RevokeOne(loc[p].stored_token.id)
  /\ pc' = [pc EXCEPT ![p] = "refresh_insert"]
  /\ UNCHANGED <<users, otps, redis, redis_client, now, req, res, hist>>

\* lines 419-444: insert the record of the new token and return the pair.
\* hist.rotated (obs): the tokens a refresh call has returned a pair for.
refresh_insert(p) ==
  /\ pc[p] = "refresh_insert"
  /\ refresh_tokens' = refresh_tokens \cup
       {[id |-> NewTokenId, user_id |-> loc[p].user.username,
         refresh_token_hash |-> hash_token(loc[p].new_refresh_token),
         expires_at |-> now + REFRESH_TOKEN_EXPIRE_DAYS * Day, revoked |-> FALSE]}
  /\ res' = [res EXCEPT ![p] = [NoRes EXCEPT !.ok = TRUE, !.status = 200,
                                             !.access_token = loc[p].new_access_token,
                                             !.refresh_token = loc[p].new_refresh_token]]
  /\ hist' = [hist EXCEPT !.rotated = @ \cup {req[p].refresh_token}]
  /\ pc' = [pc EXCEPT ![p] = "done"]
  /\ UNCHANGED <<users, otps, redis, redis_client, now, req, loc>>


\* lines 446-450: a store operation of refresh_tokens raises
refresh_raises(p) ==
  /\ pc[p] \in {"refresh_find_token", "refresh_find_user", "refresh_revoke", "refresh_insert"}
  /\ pc' = [pc EXCEPT ![p] = "done"]
  /\ res' = [res EXCEPT ![p] = HTTPException(401, "Could not refresh token")]
  /\ UNCHANGED <<users, otps, refresh_tokens, redis, redis_client, now, req, loc, hist>>
\* --------------------------------------- server.py: get_current_user, logout
\* the bearer credentials a caller can send: the access token of the login, a
\* refresh token, or a string that is no token
Credentials ==
  {create_access_token("alice", "customer", 0), create_refresh_token("alice", 0), Garbage}

Call_logout(p) ==
  /\ Free(p)
  /\ \E credentials \in Credentials, token \in Presentable :
       req' = [req EXCEPT ![p] = [Idle EXCEPT !.op = "logout", !.credentials = credentials,
                                              !.refresh_token = token]]
  /\ loc' = [loc EXCEPT ![p] = NoLoc]
  /\ pc' = [pc EXCEPT ![p] = "logout_get_current_user"]
  /\ res' = [res EXCEPT ![p] = NoRes]
  /\ UNCHANGED <<users, otps, refresh_tokens, redis, redis_client, now, hist>>

\* get_current_user (lines 61-87): the ValueError of decode_token is answered with
\* its message; the HTTPExceptions raised inside the try block are caught by
\* `except Exception` and answered "Could not validate credentials"
logout_get_current_user(p) ==
  /\ pc[p] = "logout_get_current_user"
  /\ LET token == req[p].credentials
         found == {u \in users : u.username = token.sub}
     IN IF decode_token(token, now) # "ok"
        THEN /\ pc' = [pc EXCEPT ![p] = "done"]
             /\ res' = [res EXCEPT ![p] = HTTPException(401, decode_token(token, now))]
             /\ loc' = loc
        ELSE IF token.type # "access" \/ token.sub = "" \/ found = {}
        THEN /\ pc' = [pc EXCEPT ![p] = "done"]
             /\ res' = [res EXCEPT ![p] = HTTPException(401, "Could not validate credentials")]
             /\ loc' = loc
        ELSE /\ \E u \in found : loc' = [loc EXCEPT ![p].user = u]
             /\ pc' = [pc EXCEPT ![p] = "logout_update_many"]
             /\ res' = res
  /\ UNCHANGED <<users, otps, refresh_tokens, redis, redis_client, now, req, hist>>

\* an update_many that flips the flag instead of setting it (C13, C17)
UpdateManyFlip(user_id, token_hash) ==
  {IF r.user_id = user_id /\ r.refresh_token_hash = token_hash
   THEN [r EXCEPT !.revoked = ~@] ELSE r : r \in refresh_tokens}

\* lines 464-470: update_many({user_id, refresh_token_hash}, {"$set": {"revoked": True}})
UpdateMany(user_id, token_hash) ==
  {IF r.user_id = user_id /\ r.refresh_token_hash = token_hash
   THEN [r EXCEPT !.revoked = TRUE] ELSE r : r \in refresh_tokens}

\* lines 460-475: revoke the records of the caller with the digest of the token
logout_update_many(p) ==
  /\ pc[p] = "logout_update_many"
  /\ refresh_tokens' = UpdateMany(loc[p].user.username, hash_token(req[p].refresh_token))
  /\ pc' = [pc EXCEPT ![p] = "done"]
  /\ res' = [res EXCEPT ![p] = [NoRes EXCEPT !.ok = TRUE, !.status = 200,
                                             !.msg = "Logged out successfully"]]
  /\ UNCHANGED <<users, otps, redis, redis_client, now, req, loc, hist>>

\* ------------------------------------------- server.py: the lookups by "$or"
\* find_one({"$or": [{"email": x}, {"phone": x}, {"username": x}]}): the
\* documents one of whose three fields is x; find_one returns any one of them
ByAny(x) == {u \in users : u.email = x \/ u.phone = x \/ u.username = x}

\* `user.get("email") or user.get("phone") or user.get("username")` (line 284)
Contact(user) ==
  IF user.email # "" THEN user.email
  ELSE IF user.phone # "" THEN user.phone ELSE user.username

\* line 285
ContactType(user) ==
  IF user.email # "" THEN "email" ELSE IF user.phone # "" THEN "phone" ELSE "username"

\* the targets and identifiers the requests of the model carry
AuthTargets == {"a@x.com"}
Identifiers == {"alice", "a@x.com", "nobody"}
Passwords == {"secret1", "wrong"}

\* -------------------------------------------------- server.py: verify_signup
\* lines 188-198: OTPVerify carries target, otp and purpose, and verify_otp is
\* called with the purpose of the request
VerifySignupCall(p, targets) ==
  /\ Free(p)
  /\ \E target \in targets, otp \in Codes, purpose \in {"signup", "login"} :
       /\ req' = [req EXCEPT ![p] = [Idle EXCEPT !.op = "verify_signup", !.target = target,
                                                 !.otp = otp, !.purpose = purpose]]
       /\ loc' = [loc EXCEPT ![p] =
                    [NoLoc EXCEPT !.target = target, !.otp = otp, !.purpose = purpose,
                                  !.stale = (otp \in hist.old[<<target, purpose>>]
                                             /\ otp # hist.last[<<target, purpose>>])]]
  /\ pc' = [pc EXCEPT ![p] = "otp_find_one"]
  /\ res' = [res EXCEPT ![p] = NoRes]
  /\ UNCHANGED <<users, otps, refresh_tokens, redis, redis_client, now, hist>>

Call_verify_signup(p) == VerifySignupCall(p, AuthTargets)

\* lines 204-215
vs_find_user(p) ==
  /\ pc[p] = "vs_find_user"
  /\ IF ByAny(req[p].target) = {}
     THEN /\ loc' = loc
          /\ pc' = [pc EXCEPT ![p] = "done"]
          /\ res' = [res EXCEPT ![p] = HTTPException(404, "User not found")]
     ELSE /\ \E user \in ByAny(req[p].target) : loc' = [loc EXCEPT ![p].user = user]
          /\ pc' = [pc EXCEPT ![p] = "vs_update_one"]
          /\ res' = res
  /\ UNCHANGED <<users, otps, refresh_tokens, redis, redis_client, now, req, hist>>

\* update_one({"_id": id}, {"$set": {"is_verified": True}})
SetVerified(id) ==
  {IF u.username = id THEN [u EXCEPT !.is_verified = TRUE] ELSE u : u \in users}

\* lines 217-231
vs_update_one(p) ==
  /\ pc[p] = "vs_update_one"
  /\ users' = SetVerified(loc[p].user.username)
  /\ pc' = [pc EXCEPT ![p] = "done"]
  /\ res' = [res EXCEPT ![p] = [NoRes EXCEPT !.ok = TRUE, !.status = 200,
                !.msg = "Account verified successfully. You can now login."]]
  /\ UNCHANGED <<otps, refresh_tokens, redis, redis_client, now, req, loc, hist>>

\* ------------------------------------------------- server.py: login_password
\* lines 246-253; `bound` caps the OTP documents the calls of a specification insert
Call_login_password(p, bound) ==
  /\ Free(p)
  /\ hist.inserted < bound
  /\ \E identifier \in Identifiers, password \in Passwords, ip \in IPs :
       req' = [req EXCEPT ![p] = [Idle EXCEPT !.op = "login_password",
                                              !.identifier = identifier, !.password = password,
                                              !.ip = ip, !.key = <<"login", ip>>,
                                              !.limit = RATE_LIMIT_LOGIN_PER_HOUR]]
  /\ loc' = [loc EXCEPT ![p] = NoLoc]
  /\ pc' = [pc EXCEPT ![p] = "rl_get"]
  /\ res' = [res EXCEPT ![p] = NoRes]
  /\ UNCHANGED <<users, otps, refresh_tokens, redis, redis_client, now, hist>>

\* the checks with the password looked at first
CredentialCheckPasswordFirst(user, password) ==
  IF ~verify_password(password, user.password_hash) THEN "Invalid credentials"
  ELSE IF ~user.is_verified THEN "Account not verified. Please verify your account first."
  ELSE ""

\* the answer of lines 269-281 for the user found, "" when the checks pass
CredentialCheck(user, password) ==
  IF ~user.is_verified THEN "Account not verified. Please verify your account first."
  ELSE IF ~verify_password(password, user.password_hash) THEN "Invalid credentials"
  ELSE ""

\* lines 260-287: find the user, check the flag, check the password, pick the target
lp_find_user(p) ==
  /\ pc[p] = "lp_find_user"
  /\ IF ByAny(req[p].identifier) = {}
     THEN /\ loc' = loc
          /\ pc' = [pc EXCEPT ![p] = "done"]
          /\ res' = [res EXCEPT ![p] = HTTPException(401, "Invalid credentials")]
     ELSE \E user \in ByAny(req[p].identifier) :
            LET answer == CredentialCheck(user, req[p].password)
            IN IF answer # ""
               THEN /\ loc' = [loc EXCEPT ![p].user = user]
                    /\ pc' = [pc EXCEPT ![p] = "done"]
                    /\ res' = [res EXCEPT ![p] =
                                 HTTPException(IF answer = "Invalid credentials" THEN 401 ELSE 403,
                                               answer)]
               ELSE /\ loc' = [loc EXCEPT ![p].user = user, ![p].target = Contact(user),
                                          ![p].purpose = "login",
                                          ![p].target_type = ContactType(user)]
                    /\ pc' = [pc EXCEPT ![p] = "otp_delete_many"]
                    /\ res' = res
  /\ UNCHANGED <<users, otps, refresh_tokens, redis, redis_client, now, req, hist>>

\* ----------------------------------------------- server.py: login_verify_otp
\* lines 307-317: verify_otp is called with "login"; `bound` caps the documents of
\* db.refresh_tokens
Call_login_verify_otp(p, bound) ==
  /\ Free(p)
  /\ Cardinality(refresh_tokens) < bound
  /\ \E target \in AuthTargets, otp \in Codes :
       /\ req' = [req EXCEPT ![p] = [Idle EXCEPT !.op = "login_verify_otp", !.target = target,
                                                 !.otp = otp, !.purpose = "login"]]
       /\ loc' = [loc EXCEPT ![p] =
                    [NoLoc EXCEPT !.target = target, !.otp = otp, !.purpose = "login",
                                  !.stale = (otp \in hist.old[<<target, "login">>]
                                             /\ otp # hist.last[<<target, "login">>])]]
  /\ pc' = [pc EXCEPT ![p] = "otp_find_one"]
  /\ res' = [res EXCEPT ![p] = NoRes]
  /\ UNCHANGED <<users, otps, refresh_tokens, redis, redis_client, now, hist>>

\* lines 322-336: find the user and create the tokens
lv_find_user(p) ==
  /\ pc[p] = "lv_find_user"
  /\ IF ByAny(req[p].target) = {}
     THEN /\ loc' = loc
          /\ pc' = [pc EXCEPT ![p] = "done"]
          /\ res' = [res EXCEPT ![p] = HTTPException(404, "User not found")]
     ELSE /\ \E user \in ByAny(req[p].target) :
               loc' = [loc EXCEPT ![p].user = user,
                                  ![p].new_access_token =
                                     create_access_token(user.username, user.role, now),
                                  ![p].new_refresh_token =
                                     create_refresh_token(user.username, now)]
          /\ pc' = [pc EXCEPT ![p] = "lv_insert_one"]
          /\ res' = res
  /\ UNCHANGED <<users, otps, refresh_tokens, redis, redis_client, now, req, hist>>

\* a document stored as revoked
LoginDocRevoked(user_id, refresh_token) ==
  [id |-> NewTokenId, user_id |-> user_id, refresh_token_hash |-> hash_token(refresh_token),
   expires_at |-> now + REFRESH_TOKEN_EXPIRE_DAYS * Day, revoked |-> TRUE]

\* the document of lines 340-348
LoginDoc(user_id, refresh_token) ==
  [id |-> NewTokenId, user_id |-> user_id, refresh_token_hash |-> hash_token(refresh_token),
   expires_at |-> now + REFRESH_TOKEN_EXPIRE_DAYS * Day, revoked |-> FALSE]

\* lines 338-365: insert the refresh-token document and answer with the pair
lv_insert_one(p) ==
  /\ pc[p] = "lv_insert_one"
  /\ refresh_tokens' = refresh_tokens \cup
       {LoginDoc(loc[p].user.username, loc[p].new_refresh_token)}
  /\ pc' = [pc EXCEPT ![p] = "done"]
  /\ res' = [res EXCEPT ![p] = [NoRes EXCEPT !.ok = TRUE, !.status = 200,
                                             !.access_token = loc[p].new_access_token,
                                             !.refresh_token = loc[p].new_refresh_token]]
  /\ UNCHANGED <<users, otps, redis, redis_client, now, req, loc, hist>>

\* lines 367-371: a store operation of login_verify_otp raises
lv_raises(p) ==
  /\ pc[p] \in {"lv_find_user", "lv_insert_one"}
  /\ pc' = [pc EXCEPT ![p] = "done"]
  /\ res' = [res EXCEPT ![p] = HTTPException(500, "Login failed")]
  /\ UNCHANGED <<users, otps, refresh_tokens, redis, redis_client, now, req, loc, hist>>

\* ------------------------------------------------------------------- Init
\* nothing issued, nothing counted
NoHist == [inserted |-> 0, last |-> [k \in AllOtpKeys |-> -1], old |-> [k \in AllOtpKeys |-> {}],
           calls |-> [key \in AllRateKeys |-> 0], allowed |-> [key \in AllRateKeys |-> 0],
           rotated |-> {}]

\* the state after startup with empty stores
Fresh ==
  /\ users = {}
  /\ otps = {}
  /\ refresh_tokens = {}
  /\ redis = [key \in AllRateKeys |-> NoKey]
  /\ now = 0
  /\ pc = [p \in Procs |-> "idle"]
  /\ req = [p \in Procs |-> Idle]
  /\ loc = [p \in Procs |-> NoLoc]
  /\ res = [p \in Procs |-> NoRes]
  /\ hist = NoHist

Init == Fresh /\ redis_client = "client"

\* startup (server.py lines 601-602): connect leaves the client or None
InitSignup == Fresh /\ redis_client \in connect

\* after the login of Alice
InitRefresh ==
  /\ users = {Alice}
  /\ otps = {}
  /\ refresh_tokens = {LoginRecord}
  /\ redis = [key \in AllRateKeys |-> NoKey]
  /\ redis_client = "client"
  /\ now = 0
  /\ pc = [p \in Procs |-> "idle"]
  /\ req = [p \in Procs |-> Idle]
  /\ loc = [p \in Procs |-> NoLoc]
  /\ res = [p \in Procs |-> NoRes]
  /\ hist = NoHist

\* ------------------------------------------- OTP service, concurrent calls
NextOtp ==
  \/ \E p \in Procs : Call_create_and_send_otp(p, MaxRacingOtps)
  \/ \E p \in Procs : create_delete_many(p)
  \/ \E p \in Procs : create_insert_one(p)
  \/ \E p \in Procs : Call_verify_otp(p)
  \/ \E p \in Procs : verify_find_one(p)
  \/ \E p \in Procs : verify_write(p)

SpecOtp == Init /\ [][NextOtp]_vars

\* ------------------------------- OTP service, one call at a time, with time
NextOtpSeq ==
  \/ \E p \in SeqProcs : Call_create_and_send_otp(p, MaxOtps)
  \/ \E p \in SeqProcs : create_delete_many(p)
  \/ \E p \in SeqProcs : create_insert_one(p)
  \/ \E p \in SeqProcs : Call_verify_otp(p)
  \/ \E p \in SeqProcs : verify_find_one(p)
  \/ \E p \in SeqProcs : verify_write(p)
  \/ TickOtpLifetime

SpecOtpSeq == Init /\ [][NextOtpSeq]_vars

\* ------------------------------------------------ refresh, concurrent calls
NextRefresh ==
  \/ \E p \in Procs : Call_refresh_tokens(p)
  \/ \E p \in Procs : refresh_find_token(p)
  \/ \E p \in Procs : refresh_find_user(p)
  \/ \E p \in Procs : refresh_revoke(p)
  \/ \E p \in Procs : refresh_insert(p)
  \/ TickSecond
  \/ TickTokenLifetime

SpecRefresh == InitRefresh /\ [][NextRefresh]_vars

\* ------------------------------------ rate limiter, one call at a time
NextRate ==
  \/ \E p \in SeqProcs : Call_check_rate_limit(p)
  \/ \E p \in SeqProcs : rl_get(p)
  \/ \E p \in SeqProcs : rl_setex(p)
  \/ \E p \in SeqProcs : rl_incr(p)
  \/ TickWindow

SpecRate == Init /\ [][NextRate]_vars

\* ------------------- signup, one call at a time, store operations may raise
NextSignup ==
  \/ \E p \in SeqProcs : Call_signup(p)
  \/ \E p \in SeqProcs : rl_get(p)
  \/ \E p \in SeqProcs : rl_setex(p)
  \/ \E p \in SeqProcs : rl_incr(p)
  \/ \E p \in SeqProcs : rl_raises(p)
  \/ \E p \in SeqProcs : signup_find_username(p)
  \/ \E p \in SeqProcs : signup_find_email(p)
  \/ \E p \in SeqProcs : signup_find_phone(p)
  \/ \E p \in SeqProcs : signup_insert_one(p)
  \/ \E p \in SeqProcs : signup_raises(p)
  \/ \E p \in SeqProcs : create_delete_many(p)
  \/ \E p \in SeqProcs : create_insert_one(p)
  \/ \E p \in SeqProcs : create_raises(p)
  \/ \E p \in SeqProcs : signup_rollback(p)

SpecSignup == InitSignup /\ [][NextSignup]_vars

\* ---------------------------------------- refresh and logout, concurrent calls
NextLogout ==
  \/ \E p \in Procs : Call_refresh_tokens(p)
  \/ \E p \in Procs : refresh_find_token(p)
  \/ \E p \in Procs : refresh_find_user(p)
  \/ \E p \in Procs : refresh_revoke(p)
  \/ \E p \in Procs : refresh_insert(p)
  \/ \E p \in Procs : Call_logout(p)
  \/ \E p \in Procs : logout_get_current_user(p)
  \/ \E p \in Procs : logout_update_many(p)
  \/ TickSecond
  \/ TickTokenLifetime

SpecLogout == InitRefresh /\ [][NextLogout]_vars


\* ------------- signup, verification and login, one call at a time, no limiter
\* startup without a rate-limit store
InitAuth == Fresh /\ redis_client = "None"

NextAuth ==
  \/ \E p \in SeqProcs : SignupCall(p, SharedCreates)
  \/ \E p \in SeqProcs : rl_get(p)
  \/ \E p \in SeqProcs : signup_find_username(p)
  \/ \E p \in SeqProcs : signup_find_email(p)
  \/ \E p \in SeqProcs : signup_find_phone(p)
  \/ \E p \in SeqProcs : signup_insert_one(p)
  \/ \E p \in SeqProcs : create_delete_many(p)
  \/ \E p \in SeqProcs : create_insert_one(p)
  \/ \E p \in SeqProcs : Call_verify_signup(p)
  \/ \E p \in SeqProcs : verify_find_one(p)
  \/ \E p \in SeqProcs : verify_write(p)
  \/ \E p \in SeqProcs : vs_find_user(p)
  \/ \E p \in SeqProcs : vs_update_one(p)
  \/ \E p \in SeqProcs : Call_login_password(p, MaxAuthOtps)
  \/ \E p \in SeqProcs : lp_find_user(p)
  \/ \E p \in SeqProcs : Call_login_verify_otp(p, MaxLogins)
  \/ \E p \in SeqProcs : lv_find_user(p)
  \/ \E p \in SeqProcs : lv_insert_one(p)
  \/ \E p \in SeqProcs : lv_raises(p)

SpecAuth == InitAuth /\ [][NextAuth]_vars

\* ---------------------- login_password, one call at a time, with the limiter
\* the user who signed up under the text of Alice's email and is not verified
Unverified == [username |-> "a@x.com", email |-> "", phone |-> "",
               password_hash |-> hash_password("secret3"), role |-> "customer",
               is_verified |-> FALSE]

\* after the two signups and the verification of Alice: the signup OTP of the
\* second signup replaced that of the first and was consumed
InitLogin ==
  /\ users = {Alice, Unverified}
  /\ otps = {}
  /\ refresh_tokens = {}
  /\ redis = [key \in AllRateKeys |-> NoKey]
  /\ redis_client = "client"
  /\ now = 0
  /\ pc = [p \in Procs |-> "idle"]
  /\ req = [p \in Procs |-> Idle]
  /\ loc = [p \in Procs |-> NoLoc]
  /\ res = [p \in Procs |-> NoRes]
  /\ hist = [NoHist EXCEPT !.inserted = 2]

NextLogin ==
  \/ \E p \in SeqProcs : Call_login_password(p, MaxLoginOtps)
  \/ \E p \in SeqProcs : rl_get(p)
  \/ \E p \in SeqProcs : rl_setex(p)
  \/ \E p \in SeqProcs : rl_incr(p)
  \/ \E p \in SeqProcs : lp_find_user(p)
  \/ \E p \in SeqProcs : create_delete_many(p)
  \/ \E p \in SeqProcs : create_insert_one(p)

SpecLogin == InitLogin /\ [][NextLogin]_vars

\* ------------------------------------------- rate limiter, concurrent calls
NextRateRace ==
  \/ \E p \in Procs : CheckCall(p, RacedKeys)
  \/ \E p \in Procs : rl_get(p)
  \/ \E p \in Procs : rl_setex(p)
  \/ \E p \in Procs : rl_incr(p)

SpecRateRace == Init /\ [][NextRateRace]_vars

\* ------------- refresh, one call at a time, store operations may raise
NextRefreshSeq ==
  \/ \E p \in SeqProcs : Call_refresh_tokens(p)
  \/ \E p \in SeqProcs : refresh_find_token(p)
  \/ \E p \in SeqProcs : refresh_find_user(p)
  \/ \E p \in SeqProcs : refresh_revoke(p)
  \/ \E p \in SeqProcs : refresh_insert(p)
  \/ \E p \in SeqProcs : refresh_raises(p)
  \/ TickSecond
  \/ TickTokenLifetime

SpecRefreshSeq == InitRefresh /\ [][NextRefreshSeq]_vars

\* ------ signup, verification and login, one call at a time, with the OTP clock
LimboTargets == {"carol", "a@x.com"}

NextLimbo ==
  \/ \E p \in SeqProcs : SignupCall(p, LimboCreates)
  \/ \E p \in SeqProcs : rl_get(p)
  \/ \E p \in SeqProcs : signup_find_username(p)
  \/ \E p \in SeqProcs : signup_find_email(p)
  \/ \E p \in SeqProcs : signup_find_phone(p)
  \/ \E p \in SeqProcs : signup_insert_one(p)
  \/ \E p \in SeqProcs : create_delete_many(p)
  \/ \E p \in SeqProcs : create_insert_one(p)
  \/ \E p \in SeqProcs : VerifySignupCall(p, LimboTargets)
  \/ \E p \in SeqProcs : verify_find_one(p)
  \/ \E p \in SeqProcs : verify_write(p)
  \/ \E p \in SeqProcs : vs_find_user(p)
  \/ \E p \in SeqProcs : vs_update_one(p)
  \/ \E p \in SeqProcs : Call_login_password(p, MaxAuthOtps)
  \/ \E p \in SeqProcs : lp_find_user(p)
  \/ TickOtpLifetime

SpecLimbo == InitAuth /\ [][NextLimbo]_vars
\* ====================================================== OTP service: claims
NotFound == "No OTP found for this target"
Expired == "OTP has expired"
AttemptsExhausted == "Maximum OTP attempts exceeded"
Invalid == "Invalid OTP. {remaining} attempts remaining"

\* the direct call of verify_otp in slot p has returned
Verified(p) == pc[p] = "done" /\ req[p].op = "verify_otp"

\* C3: in every reachable state the OTP store holds at most one document for
\* each (target, purpose), whatever the interleaving of create_and_send_otp and
\* verify_otp calls.
C3_AtMostOnePerKey ==
  \A k \in AllOtpKeys : Cardinality(Matching(k[1], k[2])) <= 1

\* C4 as stated: a verify_otp that begins after a later issue for the same
\* (target, purpose) has returned, with the code of an earlier issue that differs
\* from the latest code, fails with the not-found or the invalid-code outcome.
C4_NotFoundOrInvalid ==
  \A p \in Procs : Verified(p) /\ loc[p].stale =>
    ~res[p].ok /\ res[p].msg \in {NotFound, Invalid}

\* C4 amended: such a verify_otp never succeeds; it fails with the not-found, the
\* invalid-code, the expired or the attempts-exhausted outcome.
C4_NeverSucceeds ==
  \A p \in Procs : Verified(p) /\ loc[p].stale =>
    ~res[p].ok /\ res[p].msg \in {NotFound, Invalid, Expired, AttemptsExhausted}

\* the earlier code met the document of the later issue and was refused
C4_Witness ==
  \E p \in Procs : /\ Verified(p) /\ loc[p].stale
                   /\ res[p].msg = Invalid
                   /\ loc[p].otp_doc.id >= 2

\* C5: a verify_otp with the correct code, on a document that has not expired and
\* for which OTP_MAX_ATTEMPTS verify_otp calls with wrong codes have returned, fails
\* with the attempts-exhausted outcome, and the document is deleted.
C5_ExhaustedAfterMaxWrong ==
  \A p \in Procs :
    ( /\ Verified(p)
      /\ loc[p].otp_doc.id # 0
      /\ loc[p].otp_doc.wrong >= OTP_MAX_ATTEMPTS
      /\ ~loc[p].expired
      /\ verify_otp_hash(loc[p].otp, loc[p].otp_doc.otp_hash) )
    => /\ ~res[p].ok
       /\ res[p].msg = AttemptsExhausted
       /\ \A d \in otps : d.id # loc[p].otp_doc.id

C5_Witness ==
  \E p \in Procs :
    /\ Verified(p)
    /\ loc[p].otp_doc.wrong = OTP_MAX_ATTEMPTS
    /\ ~loc[p].expired
    /\ verify_otp_hash(loc[p].otp, loc[p].otp_doc.otp_hash)
    /\ res[p].msg = AttemptsExhausted
    /\ now <= loc[p].otp_doc.expires_at

\* C6: for each OTP document at most one verify_otp call returns success, in
\* every interleaving of concurrent verify_otp calls.
C6_SingleUse ==
  \A p, q \in Procs :
    ( /\ p # q
      /\ Verified(p) /\ res[p].ok
      /\ Verified(q) /\ res[q].ok )
    => loc[p].otp_doc.id # loc[q].otp_doc.id

\* ========================================================== refresh: claims
\* the refresh call in slot p has returned
Refreshed(p) == pc[p] = "done" /\ req[p].op = "refresh"

\* the call returned a new pair of tokens
Rotated(p) == Refreshed(p) /\ res[p].status = 200

\* C1: of two concurrent refresh calls that present the same valid, unrevoked
\* refresh token (they loaded the same unrevoked record), at most one returns a new
\* token pair.
C1_AtMostOneRotation ==
  \A p, q \in Procs :
    ( /\ p # q
      /\ Rotated(p) /\ Rotated(q)
      /\ req[p].refresh_token = req[q].refresh_token )
    => loc[p].stored_token.id # loc[q].stored_token.id

\* C2: a refresh call that begins after a refresh call with the same token has
\* returned a pair does not succeed and issues no tokens.
C2_NeverRotatesAgain ==
  \A p \in Procs : Refreshed(p) /\ loc[p].rotated =>
    /\ res[p].status # 200
    /\ res[p].access_token = NoToken /\ res[p].refresh_token = NoToken

\* C7: a refresh call with a refresh token whose expiry was in the past when the
\* call began fails with the Expired kind and returns no tokens.
C7_ExpiredKind ==
  \A p \in Procs : Refreshed(p) /\ loc[p].expired =>
    /\ res[p].status = 401 /\ res[p].msg = "Refresh token expired"
    /\ res[p].access_token = NoToken /\ res[p].refresh_token = NoToken

\* ===================================================== rate limiter: claims
\* the direct call of check_rate_limit in slot p has returned
Checked(p) == pc[p] = "done" /\ req[p].op = "check_rate_limit"

Min(a, b) == IF a <= b THEN a ELSE b

\* C8: of the sequential check_rate_limit calls on one key inside one window, a
\* call that k calls on the key precede is allowed when k < limit and returns
\* (false, 0) when k >= limit; and the counter of a key is its own calls, up to
\* the limit, whatever was called on the other keys.
C8_FirstLimitAllowed ==
  /\ \A p \in Procs :
       Checked(p) /\ loc[p].rl \in {"first", "counted", "denied"} =>
         IF loc[p].k < req[p].limit
         THEN res[p].ok
         ELSE ~res[p].ok /\ res[p].remaining = 0
  /\ \A key \in AllRateKeys :
       Live(key) => redis[key].count = Min(hist.calls[key], Limit(key))

\* the sixth call on a key of limit 5 is denied, after calls on another key
C8_Witness ==
  \E p \in Procs :
    /\ Checked(p)
    /\ req[p].limit = 5 /\ loc[p].k = 5
    /\ ~res[p].ok /\ res[p].remaining = 0
    /\ \E key \in AllRateKeys : key # req[p].key /\ hist.calls[key] >= 2 /\ Live(key)

\* =========================================================== signup: claims
\* the signup in slot p is past its rate-limit check
PastRateLimit(p) == req[p].op = "signup" /\ pc[p] \notin {"idle", "rl_get", "rl_setex", "rl_incr"}

\* C9: when there is no client, or a store operation of the check raised,
\* check_rate_limit returned (true, limit), for every key, and the signup it
\* guards went on: it is not answered 429.
C9_FailsOpen ==
  \A p \in Procs :
    PastRateLimit(p) /\ (redis_client = "None" \/ loc[p].rl = "error") =>
      /\ loc[p].allowed /\ loc[p].remaining = SIGNUP_LIMIT
      /\ res[p].status # 429

\* a signup over the limit of its key went through because the check raised
C9_Witness ==
  \E p \in Procs :
    /\ PastRateLimit(p) /\ loc[p].rl = "error"
    /\ Live(req[p].key) /\ redis[req[p].key].count >= SIGNUP_LIMIT
    /\ pc[p] = "done" /\ res[p].status = 201

\* C10: after a signup that inserted its user and then failed, the credential
\* store holds no document inserted by that call.
C10_RolledBack ==
  \A p \in Procs :
    ( /\ pc[p] = "done" /\ req[p].op = "signup"
      /\ loc[p].inserted_id # ""
      /\ res[p].status # 201 )
    => \A u \in users : u.username # loc[p].inserted_id

\* ============================================ OTP service: further claims
\* C14 as stated: between operations, every stored OTP document has
\* attempts < OTP_MAX_ATTEMPTS.
C14_BelowMax ==
  (\A p \in Procs : Free(p)) => \A d \in otps : d.attempts < OTP_MAX_ATTEMPTS

\* C14 amended: between sequential operations every stored OTP document has
\* attempts <= OTP_MAX_ATTEMPTS, and a verify_otp that loaded a document with
\* attempts = OTP_MAX_ATTEMPTS did not succeed and deleted it.
C14_AtMostMax ==
  /\ (\A p \in Procs : Free(p)) => \A d \in otps : d.attempts <= OTP_MAX_ATTEMPTS
  /\ \A p \in Procs :
       Verified(p) /\ loc[p].otp_doc.id # 0 /\ loc[p].otp_doc.attempts >= OTP_MAX_ATTEMPTS =>
         /\ ~res[p].ok
         /\ \A d \in otps : d.id # loc[p].otp_doc.id

\* a document stays in the store with attempts = OTP_MAX_ATTEMPTS after the
\* verify_otp that counted the last wrong code has returned
C14_Witness ==
  /\ \A p \in Procs : Free(p)
  /\ \E d \in otps : d.attempts = OTP_MAX_ATTEMPTS
  /\ \E p \in Procs : Verified(p) /\ res[p].msg = Invalid /\ res[p].remaining = 0

\* C16: once no create_and_send_otp call is in flight, the documents of a
\* (target, purpose), which are what verify_otp accepts, carry the code of the
\* call that returned last.
C16_LastIssueWins ==
  (\A p \in Procs : pc[p] \notin {"otp_delete_many", "otp_insert_one"}) =>
    \A k \in AllOtpKeys : \A d \in Matching(k[1], k[2]) :
      d.otp_hash = hash_otp(hist.last[k])

\* C19: verify_otp checks not-found, expired, attempts-exhausted, digest, in this
\* order: a document past expires_at is deleted with the expired outcome whatever
\* its attempts; a document not past expires_at with attempts >= OTP_MAX_ATTEMPTS
\* is deleted with the attempts-exhausted outcome whatever the code; at
\* now = expires_at the document is not expired.
C19_CheckOrder ==
  \A p \in Procs : Verified(p) =>
    LET d == loc[p].otp_doc
    IN /\ d.id = 0 => res[p].msg = NotFound
       /\ d.id # 0 /\ loc[p].at > d.expires_at =>
            /\ res[p].msg = Expired /\ ~res[p].ok
            /\ \A e \in otps : e.id # d.id
       /\ d.id # 0 /\ loc[p].at <= d.expires_at /\ d.attempts >= OTP_MAX_ATTEMPTS =>
            /\ res[p].msg = AttemptsExhausted /\ ~res[p].ok
            /\ \A e \in otps : e.id # d.id
       /\ d.id # 0 /\ loc[p].at <= d.expires_at /\ d.attempts < OTP_MAX_ATTEMPTS =>
            res[p].ok = verify_otp_hash(loc[p].otp, d.otp_hash)

\* a document past expires_at and with its attempts used up went with the
\* expired outcome
C19_Witness ==
  \E p \in Procs :
    /\ Verified(p)
    /\ loc[p].otp_doc.id # 0
    /\ loc[p].at > loc[p].otp_doc.expires_at
    /\ loc[p].otp_doc.attempts >= OTP_MAX_ATTEMPTS
    /\ res[p].msg = Expired

\* ============================================ rate limiter: further claims
\* C18: every counter in the store has a time-to-live, and it ends no later
\* than one window from now.
C18_CountersExpire ==
  \A key \in AllRateKeys :
    Live(key) =>
      /\ redis[key].expire_at # -1
      /\ redis[key].expire_at <= now + WINDOW_MINUTES * Minute

\* =========================================================== logout: claims
\* the records of the store with this owner and this digest
Owned(user_id, token_hash) ==
  {r \in refresh_tokens : r.user_id = user_id /\ r.refresh_token_hash = token_hash}

\* C13: the logout of an authenticated caller succeeds; with a token that was
\* never issued or whose records are all revoked it changes no record; the
\* records of other owners or other digests stay as they are; and a second
\* logout with the same token would leave the store as the first left it.
C13_LogoutStep ==
  \A p \in Procs :
    pc[p] = "logout_update_many" /\ pc'[p] = "done" =>
      LET user_id == loc[p].user.username
          token_hash == hash_token(req[p].refresh_token)
      IN /\ res'[p].status = 200
         /\ (\A r \in Owned(user_id, token_hash) : r.revoked) => refresh_tokens' = refresh_tokens
         /\ \A r \in refresh_tokens \ Owned(user_id, token_hash) : r \in refresh_tokens'
         /\ \A r \in Owned(user_id, token_hash) : [r EXCEPT !.revoked = TRUE] \in refresh_tokens'
         /\ Cardinality(refresh_tokens') = Cardinality(refresh_tokens)
         /\ \A r \in refresh_tokens' :
              r.user_id = user_id /\ r.refresh_token_hash = token_hash => r.revoked

C17_RecordStep ==
  \A r \in refresh_tokens :
    \E s \in refresh_tokens' :
      /\ s.id = r.id
      /\ [s EXCEPT !.revoked = r.revoked] = r
      /\ r.revoked => s.revoked
      /\ s # r => \E p \in Procs : /\ pc[p] \in {"refresh_revoke", "logout_update_many"}
                                   /\ pc'[p] # pc[p]

C17_RevokedMonotonic == [][C17_RecordStep]_vars

\* two records have been revoked, one by a rotation and one by a logout
C17_Witness ==
  /\ \E r \in refresh_tokens : r.revoked
  /\ \E p \in Procs : Rotated(p)
  /\ \E q \in Procs : /\ pc[q] = "done" /\ req[q].op = "logout" /\ res[q].status = 200
                      /\ Owned(loc[q].user.username, hash_token(req[q].refresh_token)) # {}


\* ------------------------------------------------- verification and login
\* C15: verify-signup succeeds only by consuming an OTP document whose purpose is
\* signup: whenever a verify_signup call has answered with success, the document
\* its verify_otp consumed was issued for purpose "signup".
C15_SignupPurposeOnly ==
  \A p \in Procs :
    (pc[p] = "done" /\ req[p].op = "verify_signup" /\ res[p].status = 200)
      => loc[p].otp_doc.purpose = "signup"

\* C11: no sequence of signup, verify-signup, login-password and login-verify-otp
\* calls yields tokens for an unverified subject: whenever a login_verify_otp
\* call has answered with a token pair, the user document of the subject of the
\* tokens has is_verified = TRUE.
C11_VerifiedAtIssue ==
  \A p \in Procs :
    (pc[p] = "done" /\ req[p].op = "login_verify_otp" /\ res[p].status = 200)
      => \E u \in users : u.username = res[p].access_token.sub /\ u.is_verified

\* C12: login step 2 is all-or-nothing.  The step on which login_verify_otp
\* answers either returns an access and a refresh token and leaves in
\* db.refresh_tokens an unrevoked document of the digest of the returned refresh
\* token, owned by the subject of both tokens, or it returns an error with no
\* token; and db.refresh_tokens changes on no other step than the one that
\* answers with the pair.
C12_Step ==
  \A p \in SeqProcs :
    /\ (req'[p].op = "login_verify_otp" /\ pc[p] # "done" /\ pc'[p] = "done")
         => IF res'[p].status = 200
            THEN /\ res'[p].access_token.type = "access"
                 /\ res'[p].refresh_token.type = "refresh"
                 /\ res'[p].access_token.sub = res'[p].refresh_token.sub
                 /\ \E d \in refresh_tokens' :
                      /\ d.refresh_token_hash = hash_token(res'[p].refresh_token)
                      /\ d.user_id = res'[p].refresh_token.sub
                      /\ ~d.revoked
            ELSE /\ res'[p].status >= 400
                 /\ res'[p].access_token = NoToken
                 /\ res'[p].refresh_token = NoToken
                 /\ refresh_tokens' = refresh_tokens
    /\ ~(req'[p].op = "login_verify_otp" /\ pc[p] # "done" /\ pc'[p] = "done")
         => refresh_tokens' = refresh_tokens

C12_AllOrNothing == [][C12_Step]_vars

\* a login_verify_otp call has answered with the pair and its document is stored
C12_Witness ==
  \E p \in SeqProcs :
    /\ pc[p] = "done" /\ req[p].op = "login_verify_otp" /\ res[p].status = 200
    /\ \E d \in refresh_tokens : d.refresh_token_hash = hash_token(res[p].refresh_token)

\* C20: login_password creates a login-purpose OTP only when the identifier
\* resolves to a user document that is verified and whose password matches, and
\* only when the limiter allowed the call; an unknown identifier and a wrong
\* password are answered 401 "Invalid credentials", an unverified account 403
\* "Account not verified...", a denied call 429; and a call that fails this way
\* has created and deleted no OTP document.
C20_Step ==
  \A p \in SeqProcs :
    req'[p].op = "login_password" =>
      \* the OTP service is entered only past every check
      /\ pc'[p] \in {"otp_delete_many", "otp_insert_one"}
           => /\ loc'[p].allowed
              /\ loc'[p].user \in ByAny(req'[p].identifier)
              /\ loc'[p].user.is_verified
              /\ verify_password(req'[p].password, loc'[p].user.password_hash)
      \* documents change only inside the OTP service, and a new one is for login
      /\ otps' # otps
           => /\ pc[p] \in {"otp_delete_many", "otp_insert_one"}
              /\ \A d \in otps' \ otps : d.purpose = "login" /\ d.target = Contact(loc[p].user)
      \* the failures are answered before the OTP service is entered
      /\ (pc[p] # "done" /\ pc'[p] = "done" /\ res'[p].status # 200)
           => /\ pc[p] \in {"rl_get", "rl_setex", "rl_incr", "lp_find_user"}
              /\ otps' = otps
      /\ (pc[p] \in {"rl_get", "rl_setex", "rl_incr"} /\ pc'[p] = "done")
           => /\ ~loc'[p].allowed
              /\ res'[p].status = 429
      /\ (pc[p] = "lp_find_user" /\ pc'[p] = "done")
           => IF ByAny(req[p].identifier) = {}
              THEN res'[p].status = 401 /\ res'[p].msg = "Invalid credentials"
              ELSE IF ~loc'[p].user.is_verified
              THEN /\ res'[p].status = 403
                   /\ res'[p].msg = "Account not verified. Please verify your account first."
              ELSE /\ ~verify_password(req[p].password, loc'[p].user.password_hash)
                   /\ res'[p].status = 401 /\ res'[p].msg = "Invalid credentials"

C20_OtpOnlyPastChecks == [][C20_Step]_vars

\* a login_password call has answered with success and its login OTP is stored,
\* and some address has been denied by the limiter
C20_Witness ==
  \E p \in SeqProcs :
    /\ pc[p] = "done" /\ req[p].op = "login_password" /\ res[p].status = 200
    /\ \E d \in otps : d.purpose = "login" /\ d.target = Contact(loc[p].user)
    /\ \E key \in AllRateKeys : key[1] = "login" /\ hist.calls[key] > RATE_LIMIT_LOGIN_PER_HOUR

\* ================================================ rate limiter: return values
\* C21: for sequential check_rate_limit calls on one key with limit L inside one
\* window, the k-th allowed call (1 <= k <= L) returns (true, L - k) and leaves
\* the counter at k; a denied call returns (false, 0) and changes neither the
\* counter nor its time-to-live; and an allowed increment leaves the expiry of
\* the key where it was.  A call during which the key expired is not a call
\* inside one window.
C21_Step ==
  \A p \in SeqProcs :
    (req[p].op = "check_rate_limit" /\ pc[p] # "done" /\ pc'[p] = "done"
       /\ loc'[p].rl \in {"first", "counted", "denied"})
      => LET key == req[p].key
             L == req[p].limit
             k == hist'.calls[key]
         IN IF res'[p].ok
            THEN /\ 1 <= k /\ k <= L
                 /\ res'[p].remaining = L - k
                 /\ redis'[key].count = k
                 /\ loc'[p].rl = "counted" => redis'[key].expire_at = redis[key].expire_at
                 /\ loc'[p].rl = "first" => redis'[key].expire_at = now + WINDOW_MINUTES * Minute
            ELSE /\ k > L
                 /\ res'[p].remaining = 0
                 /\ redis' = redis

C21_ReturnValues == [][C21_Step]_vars

\* the last allowed call on a key of limit 5 has returned (true, 0), and a call
\* on the other key was denied
C21_Witness ==
  \E p \in SeqProcs :
    /\ Checked(p) /\ req[p].limit = 5 /\ loc[p].rl = "counted"
    /\ res[p].ok /\ res[p].remaining = 0
    /\ redis[req[p].key].count = 5
    /\ \E key \in AllRateKeys : key # req[p].key /\ hist.calls[key] > Limit(key)

\* C22: under concurrent check_rate_limit calls on one key, with get, setex and
\* incr interleaved, the calls the limiter lets through within one window are
\* never more than the limit of the key.
C22_AtMostLimit ==
  \A key \in AllRateKeys : hist.allowed[key] <= Limit(key)

\* =================================================== OTP service: retry budget
\* C23: in every interleaving of concurrent verify_otp calls on one (target,
\* purpose), no OTP document has had more than OTP_MAX_ATTEMPTS presented codes
\* compared against its digest and refused while it stayed in the store.
C23_BoundedRetries ==
  \A d \in otps : d.wrong <= OTP_MAX_ATTEMPTS

\* ============================================== identity resolution: claims
\* C24: login_verify_otp issues its token pair for the user whose password the
\* login_password call that created the consumed OTP verified, and verify_signup
\* marks verified the user whose signup created the consumed OTP, also when the
\* username of one user is the email or phone of another.
C24_SameSubject ==
  \A p \in Procs :
    /\ (pc[p] = "done" /\ req[p].op = "login_verify_otp" /\ res[p].status = 200)
         => /\ loc[p].otp_doc.purpose = "login"
            /\ res[p].access_token.sub = loc[p].otp_doc.by
            /\ res[p].refresh_token.sub = loc[p].otp_doc.by
    /\ (pc[p] = "done" /\ req[p].op = "verify_signup" /\ res[p].status = 200)
         => /\ loc[p].otp_doc.purpose = "signup"
            /\ loc[p].user.username = loc[p].otp_doc.by

\* ================================================ refresh tokens: digests
\* C25: no two documents of db.refresh_tokens have the same refresh_token_hash,
\* also when two issues for one subject fall into the same second and their
\* payloads (sub, exp, type) coincide; so a rotation leaves no unrevoked
\* document with the digest of the token that was presented.
C25_DigestsUnique ==
  /\ \A d1, d2 \in refresh_tokens :
       d1.refresh_token_hash = d2.refresh_token_hash => d1 = d2
  /\ \A p \in Procs :
       Rotated(p) =>
         \A d \in refresh_tokens :
           d.refresh_token_hash = hash_token(req[p].refresh_token) => d.revoked

\* ===================================================== logout against refresh
\* the logout in slot q, by the owner of the refresh token it named, has returned
LoggedOut(q) ==
  /\ pc[q] = "done" /\ req[q].op = "logout" /\ res[q].status = 200
  /\ loc[q].user.username = req[q].refresh_token.sub

\* C26: once the logout for refresh token T has returned, no refresh call that
\* presents T returns a token pair, and no unrevoked document is stored by a
\* rotation of T, also when the refresh was in flight while the logout ran.
C26_Step ==
  \A p, q \in Procs :
    ( /\ LoggedOut(q)
      /\ req[p].op = "refresh" /\ req[p].refresh_token = req[q].refresh_token
      /\ pc[p] \notin {"idle", "done"} )
    => /\ ~(pc'[p] = "done" /\ res'[p].status = 200)
       /\ \A d \in refresh_tokens' \ refresh_tokens : d.revoked

C26_NoRefreshAfterLogout == [][C26_Step]_vars

\* ======================================================== refresh: errors
\* C28: a refresh call that returns an error leaves db.refresh_tokens as it
\* was: the document of the presented token, which the call found unrevoked, is
\* not left revoked when no pair was returned, also when the store fails
\* between the update that revokes it and the insert of the new document.
C28_ErrorLeavesStore ==
  \A p \in SeqProcs :
    (Refreshed(p) /\ res[p].status # 200 /\ loc[p].stored_token.id # 0)
      => loc[p].stored_token \in refresh_tokens

\* ===================================================== unverified accounts
\* a call holds an OTP operation or a verification for the target
InFlightFor(p, target) ==
  /\ pc[p] \in {"otp_delete_many", "otp_insert_one", "otp_verify_write",
                "vs_find_user", "vs_update_one"}
  /\ loc[p].target = target

\* the user has a username and nothing else, is not verified, and the OTP store
\* has no document for the username, nor is a call about to write or consume one
Limbo(u) ==
  /\ u.email = "" /\ u.phone = ""
  /\ ~u.is_verified
  /\ \A d \in otps : d.target # u.username
  /\ \A p \in Procs : ~InFlightFor(p, u.username)

\* no operation leads out of Limbo: the user stays, unverified, and no OTP is
\* issued for the username again (signup answers "Username already exists",
\* login_password answers 403, verify_signup finds no OTP)
LimboIsAbsorbing ==
  [][\A u \in users : Limbo(u) => (u \in users' /\ Limbo(u)')]_vars

\* C27: an unverified account is never stuck: in every reachable state each user
\* document with is_verified = FALSE has a stored signup OTP for its target, or
\* operations are left that lead to its verification, also after its signup OTP
\* has expired or has used up its attempts.
C27_NeverStuck ==
  \A u \in users :
    ~u.is_verified =>
      \/ \E d \in otps : d.purpose = "signup" /\ d.target = Contact(u)
      \/ ~Limbo(u)
====
